---------------------------- MODULE Spec2Model ----------------------------
(***************************************************************************)
(* A model of the technical-analysis core of TWSEDataFetcher               *)
(* (src/knowledge_base/tools/twse_data.py) and of the prediction tool      *)
(* that calls it (src/knowledge_base/tools/stock_tools.py).                *)
(*                                                                         *)
(* The methods are pure functions of a table (a pandas DataFrame).  The    *)
(* state is the table a caller holds (df) and the value the last call      *)
(* returned (ret).  Init draws the table from a bounded family of bar      *)
(* tables; each action is one call.                                        *)
(*                                                                         *)
(* Numbers.  The code computes in float64.  The model keeps every price    *)
(* and indicator as an integer count of 1/Scale units and rounds each      *)
(* division down to that resolution, so a value is within 1/Scale of the   *)
(* real-number result.  Comparisons against the integer thresholds of the  *)
(* code (30, 40, 60, 70 ...) are exact.  NaN (and None, which pd.notna     *)
(* treats alike) is the value NaN below.                                   *)
(***************************************************************************)
EXTENDS Integers, Sequences, FiniteSets

VARIABLES df, ret

vars == <<df, ret>>

(***************************************************************************)
(* Numeric representation                                                  *)
(***************************************************************************)
\* Units per 1.0: every float of the code is held as value * Scale.
\* Quotients are exact to 1/Scale (rounded down); a float64 result of the
\* code can lie one ulp off the exact quotient (gains 14, losses 21 give an
\* RSI of 40 here and 39.99999999999999 in float64).
Scale == 100 * 100

\* pandas' NaN / None: the value pd.notna rejects.
NaN == -2000000000

notna(v) == v # NaN

Max(a, b) == IF a >= b THEN a ELSE b
Min(a, b) == IF a <= b THEN a ELSE b

\* Largest r with r * r <= n (n >= 0): the square root, rounded down.
RECURSIVE SqrtSearch(_, _, _)
SqrtSearch(n, lo, hi) ==
    IF lo >= hi THEN lo
    ELSE LET mid == (lo + hi + 1) \div 2
         IN IF mid * mid <= n THEN SqrtSearch(n, mid, hi)
                                ELSE SqrtSearch(n, lo, mid - 1)

ISqrt(n) == SqrtSearch(n, 0, Min(n, 46340))

\* round(x, 2) on a float: to the nearest 1/100, ties to the even neighbour.
round2(v) ==
    LET unit == Scale \div 100
        q    == v \div unit
        r    == v - q * unit
    IN IF 2 * r < unit THEN q * unit
       ELSE IF 2 * r > unit THEN (q + 1) * unit
       ELSE IF q % 2 = 0 THEN q * unit ELSE (q + 1) * unit

(***************************************************************************)
(* The tables: what get_stock_history hands to the analysis methods.       *)
(* A bar is [close, high, low] in whole price units; a table is a          *)
(* sequence of bars, oldest first.                                         *)
(***************************************************************************)
MaxLen  == 21      \* longest table
MaxTail == 2       \* longest final stretch that leaves the table's pattern
MaxWick == 1       \* largest distance of high and low from the close
Base    == 60      \* close of the first bar

\* Daily changes of the close, repeated cyclically.
Patterns ==
    << <<0>>, <<1>>, <<-1>>, <<-3>>,
       <<3, -7>>, <<7, -3>>, <<2, -3>>, <<3, -2>>,
       <<2, 2, -1, -1>>, <<-2, -2, 1, 1>> >>

\* Patterns a final stretch may follow instead: one step up or down a day.
Kicks == {2, 3}

Cyc(p, n) == Patterns[p][(n % Len(Patterns[p])) + 1]

\* The change from bar i-1 to bar i (2 <= i <= L) of the table that follows
\* pattern a and, on its last k bars, pattern b.
Delta(L, a, b, k, i) ==
    IF i <= L - k THEN Cyc(a, i - 2) ELSE Cyc(b, i - 1 - (L - k))

RECURSIVE Closes(_, _, _, _, _, _)
Closes(L, a, b, k, i, acc) ==
    IF i > L THEN acc
    ELSE Closes(L, a, b, k, i + 1,
                Append(acc, IF i = 1 THEN Base
                            ELSE acc[i - 1] + Delta(L, a, b, k, i)))

Bars(closes, w) ==
    [i \in 1..Len(closes) |->
        [close |-> closes[i], high |-> closes[i] + w, low |-> closes[i] - w]]

\* A DataFrame without indicator columns.
RawFrame(bars) == [bars |-> bars, augmented |-> FALSE, ind |-> << >>]

\* Prices are positive (section 3 of the spec: non-negative finite numbers;
\* a close of 0 is kept out because the return series divides by it).
PatternTables ==
    { RawFrame(Bars(Closes(L, a, b, Min(k, L), 1, << >>), w)) :
        <<L, a, b, k, w>> \in
            { t \in (0..MaxLen) \X (1..Len(Patterns)) \X Kicks
                        \X (0..MaxTail) \X (0..MaxWick) :
                LET cs == Closes(t[1], t[2], t[3], Min(t[4], t[1]), 1, << >>)
                IN \A i \in 1..Len(cs) : cs[i] - t[5] >= 1 } }

\* Two irregular tables of 21 bars (closes, wick).  On the last bar of the
\* first MA5 crosses above MA20 while K crosses below D above 70; on the last
\* bar of the second MA5 crosses below MA20 while K crosses above D under 30.
Whipsaws ==
    { << <<60, 60, 57, 57, 50, 51, 51, 44, 47, 44, 37, 38, 41, 48, 47, 47,
           49, 50, 50, 47, 46>>, 1 >>,
      << <<60, 62, 63, 70, 70, 77, 76, 79, 80, 83, 84, 81, 81, 78, 79, 76,
           75, 76, 73, 75, 77>>, 0 >> }

\* A table of 21 bars that rises for ten bars and then stays where it is: its
\* last four 9-bar windows are flat while earlier ones are not.
Plateaus ==
    { << <<60, 61, 62, 63, 64, 65, 66, 67, 68, 69, 69, 69, 69, 69, 69, 69,
           69, 69, 69, 69, 69>>, 0 >> }

\* A table of 21 bars whose last bar has a close above its own high: closes
\* of 60 between a low of 59 and a high of 61, then a close of 70 between the
\* same low and high.  Nothing in get_stock_history or _clean_data compares
\* the columns of a row with one another.
Misprints ==
    { [i \in 1..21 |-> [close |-> IF i = 21 THEN 70 ELSE 60,
                         high |-> 61, low |-> 59]] }

\* A table of 21 bars that climbs two a day.
Ramps == { << [i \in 1..21 |-> 58 + 2 * i], 1 >> }

Tables ==
    PatternTables
        \cup { RawFrame(Bars(t[1], t[2])) :
                   t \in Whipsaws \cup Plateaus \cup Ramps }
        \cup { RawFrame(bars) : bars \in Misprints }

len(d) == Len(d.bars)
close(d) == [i \in 1..len(d) |-> d.bars[i].close]
high(d)  == [i \in 1..len(d) |-> d.bars[i].high]
low(d)   == [i \in 1..len(d) |-> d.bars[i].low]

(***************************************************************************)
(* pandas primitives                                                       *)
(***************************************************************************)
RECURSIVE SumRange(_, _, _)
SumRange(xs, lo, hi) == IF lo > hi THEN 0 ELSE xs[hi] + SumRange(xs, lo, hi - 1)

RECURSIVE MinRange(_, _, _)
MinRange(xs, lo, hi) ==
    IF lo = hi THEN xs[lo] ELSE Min(xs[hi], MinRange(xs, lo, hi - 1))

RECURSIVE MaxRange(_, _, _)
MaxRange(xs, lo, hi) ==
    IF lo = hi THEN xs[lo] ELSE Max(xs[hi], MaxRange(xs, lo, hi - 1))

\* Faulty variant: the window is moved one row ahead (it ends at row i + 1)
\* wherever the table has a next row.
rolling_mean_ahead(xs, window) ==
    [i \in 1..Len(xs) |->
        LET e == Min(i + 1, Len(xs))
        IN IF i < window THEN NaN
           ELSE (SumRange(xs, e - window + 1, e) * Scale) \div window]

\* Faulty variant: the mean leaves out the oldest row of the window.
rolling_mean_short(xs, window) ==
    [i \in 1..Len(xs) |->
        IF i < window THEN NaN
        ELSE (SumRange(xs, i - window + 2, i) * Scale) \div (window - 1)]

\* Series.rolling(window).mean() of whole-unit values: NaN until the window
\* is full (min_periods = window).
rolling_mean(xs, window) ==
    [i \in 1..Len(xs) |->
        IF i < window THEN NaN
        ELSE (SumRange(xs, i - window + 1, i) * Scale) \div window]

\* Series.ewm(adjust=False).mean() with smoothing factor num/den on a series
\* without NaN: y[1] = x[1], y[t] = (1 - alpha) y[t-1] + alpha x[t].
RECURSIVE ewm_mean(_, _, _, _)
ewm_mean(xs, num, den, acc) ==
    LET i == Len(acc) + 1
    IN IF i > Len(xs) THEN acc
       ELSE ewm_mean(xs, num, den,
                Append(acc, IF i = 1 THEN xs[1]
                            ELSE ((den - num) * acc[i - 1] + num * xs[i]) \div den))

\* Series.ewm(com=2, adjust=False).mean() on a series that may hold NaN
\* (ignore_na=False): NaN until the first observation; a NaN observation
\* repeats the last average; the first observation after gap NaNs weighs the
\* old average (2/3)^(gap+1) against 1/3.
RECURSIVE ewm_com2(_, _, _, _)
ewm_com2(xs, weighted, gap, acc) ==
    LET i == Len(acc) + 1
    IN IF i > Len(xs) THEN acc
       ELSE IF ~notna(weighted)
            THEN ewm_com2(xs, xs[i], 0, Append(acc, xs[i]))
       ELSE IF ~notna(xs[i])
            THEN ewm_com2(xs, weighted, gap + 1, Append(acc, weighted))
       ELSE LET old == 2 ^ (gap + 1)
                new == 3 ^ gap
                w   == (old * weighted + new * xs[i]) \div (old + new)
            IN ewm_com2(xs, w, 0, Append(acc, w))

(***************************************************************************)
(* The Indicator Calculator                                                *)
(***************************************************************************)
\* _calculate_rsi.  gain and loss are the rolling means of the rises and the
\* falls of the close over `period` rows; the diff of the first row is NaN
\* and counts as 0 in both.  With G and L the sums of the window,
\* rs = G / L and rsi = 100 - 100 / (1 + rs) = 100 G / (G + L).  L = 0 makes
\* rs = G / 0: infinite when G > 0, so rsi = 100 - 100 / inf = 100, and
\* 0 / 0 = NaN when G = 0.
Rise(prices, j) ==
    IF j > 1 /\ prices[j] > prices[j - 1] THEN prices[j] - prices[j - 1] ELSE 0

Fall(prices, j) ==
    IF j > 1 /\ prices[j] < prices[j - 1] THEN prices[j - 1] - prices[j] ELSE 0

\* Faulty variant: rsi = 100 * rs, the relative strength itself as a
\* percentage.
_calculate_rsi_ratio(prices, period) ==
    LET gain == [j \in 1..Len(prices) |-> Rise(prices, j)]
        loss == [j \in 1..Len(prices) |-> Fall(prices, j)]
    IN [i \in 1..Len(prices) |->
          IF i < period THEN NaN
          ELSE LET G == SumRange(gain, i - period + 1, i)
                   L == SumRange(loss, i - period + 1, i)
               IN IF L = 0 THEN (IF G = 0 THEN NaN ELSE 100 * Scale)
                  ELSE (100 * G * Scale) \div L]

\* Faulty variant: a zero loss is guarded and gives NaN whatever the gain.
_calculate_rsi_guarded(prices, period) ==
    LET gain == [j \in 1..Len(prices) |-> Rise(prices, j)]
        loss == [j \in 1..Len(prices) |-> Fall(prices, j)]
    IN [i \in 1..Len(prices) |->
          IF i < period THEN NaN
          ELSE LET G == SumRange(gain, i - period + 1, i)
                   L == SumRange(loss, i - period + 1, i)
               IN IF L = 0 THEN NaN
                  ELSE (100 * G * Scale) \div (G + L)]

_calculate_rsi(prices, period) ==
    LET gain == [j \in 1..Len(prices) |-> Rise(prices, j)]
        loss == [j \in 1..Len(prices) |-> Fall(prices, j)]
    IN [i \in 1..Len(prices) |->
          IF i < period THEN NaN
          ELSE LET G == SumRange(gain, i - period + 1, i)
                   L == SumRange(loss, i - period + 1, i)
               IN IF L = 0 THEN (IF G = 0 THEN NaN ELSE 100 * Scale)
                  ELSE (100 * G * Scale) \div (G + L)]

\* Faulty variant: the histogram is signal_line - macd.
_calculate_macd_swapped(prices, fast, slow, signal) ==
    LET xs   == [i \in 1..Len(prices) |-> prices[i] * Scale]
        exp1 == ewm_mean(xs, 2, fast + 1, << >>)
        exp2 == ewm_mean(xs, 2, slow + 1, << >>)
        macd == [i \in 1..Len(prices) |-> exp1[i] - exp2[i]]
        signal_line == ewm_mean(macd, 2, signal + 1, << >>)
        histogram   == [i \in 1..Len(prices) |-> signal_line[i] - macd[i]]
    IN [macd |-> macd, signal_line |-> signal_line, histogram |-> histogram]

\* _calculate_macd: span s gives the smoothing factor 2 / (s + 1).
_calculate_macd(prices, fast, slow, signal) ==
    LET xs   == [i \in 1..Len(prices) |-> prices[i] * Scale]
        exp1 == ewm_mean(xs, 2, fast + 1, << >>)
        exp2 == ewm_mean(xs, 2, slow + 1, << >>)
        macd == [i \in 1..Len(prices) |-> exp1[i] - exp2[i]]
        signal_line == ewm_mean(macd, 2, signal + 1, << >>)
        histogram   == [i \in 1..Len(prices) |-> macd[i] - signal_line[i]]
    IN [macd |-> macd, signal_line |-> signal_line, histogram |-> histogram]

\* _calculate_kd.  A flat window divides 0 by 0: on every table here the
\* close of a bar that ends a flat window equals that window's low, so the
\* numerator is 0 too.  rsv is not limited to 0..100 by the code: a close
\* above high_max or below low_min gives a value outside.
\* Faulty variant: high_max is taken from the low column.
_calculate_kd_lowmax(d, period) ==
    LET rsv == [i \in 1..len(d) |->
                  IF i < period THEN NaN
                  ELSE LET low_min  == MinRange(low(d), i - period + 1, i)
                           high_max == MaxRange(low(d), i - period + 1, i)
                       IN IF high_max = low_min THEN NaN
                          ELSE ((close(d)[i] - low_min) * 100 * Scale)
                                   \div (high_max - low_min)]
        k == ewm_com2(rsv, NaN, 0, << >>)
        dd == ewm_com2(k, NaN, 0, << >>)
    IN [k |-> k, d |-> dd]

\* Faulty variant: K and D are blanked where the rsv of the row is NaN.
_calculate_kd_masked(d, period) ==
    LET rsv == [i \in 1..len(d) |->
                  IF i < period THEN NaN
                  ELSE LET low_min  == MinRange(low(d), i - period + 1, i)
                           high_max == MaxRange(high(d), i - period + 1, i)
                       IN IF high_max = low_min THEN NaN
                          ELSE ((close(d)[i] - low_min) * 100 * Scale)
                                   \div (high_max - low_min)]
        k  == ewm_com2(rsv, NaN, 0, << >>)
        dd == ewm_com2(k, NaN, 0, << >>)
    IN [k |-> [i \in 1..len(d) |-> IF notna(rsv[i]) THEN k[i] ELSE NaN],
        d |-> [i \in 1..len(d) |-> IF notna(rsv[i]) THEN dd[i] ELSE NaN]]

_calculate_kd(d, period) ==
    LET rsv == [i \in 1..len(d) |->
                  IF i < period THEN NaN
                  ELSE LET low_min  == MinRange(low(d), i - period + 1, i)
                           high_max == MaxRange(high(d), i - period + 1, i)
                       IN IF high_max = low_min THEN NaN
                          ELSE ((close(d)[i] - low_min) * 100 * Scale)
                                   \div (high_max - low_min)]
        k == ewm_com2(rsv, NaN, 0, << >>)
        dd == ewm_com2(k, NaN, 0, << >>)
    IN [k |-> k, d |-> dd]

\* Faulty variant: the population standard deviation (ddof = 0).
rolling_std_population(prices, period) ==
    LET sq == [i \in 1..Len(prices) |-> prices[i] * prices[i]]
    IN [i \in 1..Len(prices) |->
          IF i < period THEN NaN
          ELSE LET sx  == SumRange(prices, i - period + 1, i)
                   sxx == SumRange(sq, i - period + 1, i)
               IN ISqrt(((period * sxx - sx * sx) * 10000)
                            \div (period * period)) * (Scale \div 100)]

\* Series.rolling(period).std(): the sample standard deviation (ddof = 1),
\* sqrt((n * sum(x^2) - sum(x)^2) / (n (n - 1))), held to 1/100.
rolling_std(prices, period) ==
    LET sq == [i \in 1..Len(prices) |-> prices[i] * prices[i]]
    IN [i \in 1..Len(prices) |->
          IF i < period THEN NaN
          ELSE LET sx  == SumRange(prices, i - period + 1, i)
                   sxx == SumRange(sq, i - period + 1, i)
               IN ISqrt(((period * sxx - sx * sx) * 10000)
                            \div (period * (period - 1))) * (Scale \div 100)]

\* Faulty variant: the signs of the two bands are exchanged.
_calculate_bollinger_bands_swapped(prices, period, std_dev) ==
    LET middle == rolling_mean(prices, period)
        std    == rolling_std(prices, period)
    IN [upper  |-> [i \in 1..Len(prices) |->
                      IF notna(middle[i]) THEN middle[i] - std[i] * std_dev ELSE NaN],
        middle |-> middle,
        lower  |-> [i \in 1..Len(prices) |->
                      IF notna(middle[i]) THEN middle[i] + std[i] * std_dev ELSE NaN]]

_calculate_bollinger_bands(prices, period, std_dev) ==
    LET middle == rolling_mean(prices, period)
        std    == rolling_std(prices, period)
    IN [upper  |-> [i \in 1..Len(prices) |->
                      IF notna(middle[i]) THEN middle[i] + std[i] * std_dev ELSE NaN],
        middle |-> middle,
        lower  |-> [i \in 1..Len(prices) |->
                      IF notna(middle[i]) THEN middle[i] - std[i] * std_dev ELSE NaN]]

\* Lines 168-188 of calculate_technical_indicators: a copy of the table with
\* the indicator columns added.
augment(d) ==
         LET c    == close(d)
             ma5  == rolling_mean(c, 5)
             ma10 == rolling_mean(c, 10)
             ma20 == rolling_mean(c, 20)
             ma60 == IF len(d) >= 60 THEN rolling_mean(c, 60)
                                     ELSE [i \in 1..len(d) |-> NaN]
             rsi  == _calculate_rsi(c, 14)
             m    == _calculate_macd(c, 12, 26, 9)
             kd   == _calculate_kd(d, 9)
             bb   == _calculate_bollinger_bands(c, 20, 2)
         IN [bars |-> d.bars, augmented |-> TRUE,
             ind |-> [i \in 1..len(d) |->
                [MA5 |-> ma5[i], MA10 |-> ma10[i], MA20 |-> ma20[i],
                 MA60 |-> ma60[i], RSI |-> rsi[i],
                 MACD |-> m.macd[i], MACD_Signal |-> m.signal_line[i],
                 MACD_Hist |-> m.histogram[i],
                 K |-> kd.k[i], D |-> kd.d[i],
                 BB_Upper |-> bb.upper[i], BB_Middle |-> bb.middle[i],
                 BB_Lower |-> bb.lower[i]]]]

\* Faulty variant: the length guard asks for 10 rows instead of 20.
calculate_technical_indicators_min10(d) ==
    IF len(d) = 0 \/ len(d) < 10 THEN d ELSE augment(d)

\* calculate_technical_indicators: the table itself when it is empty or has
\* fewer than 20 rows, else the augmented copy.
calculate_technical_indicators(d) ==
    IF len(d) = 0 \/ len(d) < 20 THEN d ELSE augment(d)

\* Faulty variant: the columns are assigned to the caller's table itself.
caller_table_inplace(d) == calculate_technical_indicators(d)

\* The caller's table after calculate_technical_indicators(d) has returned:
\* a short table is handed back untouched (line 166) and a longer one is
\* copied first (df = df.copy(), line 168), so every column assignment goes to
\* the copy and the caller's table keeps its bars and its columns.
caller_table(d) == d

\* row.get(col) and df[col].iloc[i] when the column exists: None / NaN when
\* the table has no indicator columns.
get(d, i, col) == IF d.augmented THEN d.ind[i][col] ELSE NaN

(***************************************************************************)
(* The Support/Resistance Detector                                         *)
(***************************************************************************)
\* Insert v into a sequence sorted ascending, after the values equal to it.
RECURSIVE Insert(_, _)
Insert(sorted, v) ==
    IF sorted = << >> THEN <<v>>
    ELSE IF v < Head(sorted) THEN <<v>> \o sorted
    ELSE <<Head(sorted)>> \o Insert(Tail(sorted), v)

\* sorted(xs)
RECURSIVE sorted(_)
sorted(xs) == IF xs = << >> THEN << >> ELSE Insert(sorted(Tail(xs)), Head(xs))

RECURSIVE Reverse(_)
Reverse(xs) == IF xs = << >> THEN << >> ELSE Append(Reverse(Tail(xs)), Head(xs))

\* xs[:n]
Take(xs, n) == SubSeq(xs, 1, Min(n, Len(xs)))

\* [x for x in xs if x < bound] and [x for x in xs if x > bound]
Below(xs, bound) == SelectSeq(xs, LAMBDA x : x < bound)
Above(xs, bound) == SelectSeq(xs, LAMBDA x : x > bound)

\* The loop over range(2, len(df) - 2) (rows 3 .. L-2 here): the highs that
\* exceed their two neighbours on each side, in row order.
RECURSIVE resistance_levels(_, _)
resistance_levels(highs, i) ==
    IF i > Len(highs) - 2 THEN << >>
    ELSE (IF /\ highs[i] > highs[i - 1] /\ highs[i] > highs[i - 2]
             /\ highs[i] > highs[i + 1] /\ highs[i] > highs[i + 2]
          THEN <<highs[i]>> ELSE << >>) \o resistance_levels(highs, i + 1)

RECURSIVE support_levels(_, _)
support_levels(lows, i) ==
    IF i > Len(lows) - 2 THEN << >>
    ELSE (IF /\ lows[i] < lows[i - 1] /\ lows[i] < lows[i - 2]
             /\ lows[i] < lows[i + 1] /\ lows[i] < lows[i + 2]
          THEN <<lows[i]>> ELSE << >>) \o support_levels(lows, i + 1)

\* Faulty variant: a high or low that ties a neighbour still counts.
candidate_levels_ties(d) ==
    LET rows == [i \in 1..Max(len(d) - 4, 0) |-> i + 2]
        near(i) == {i - 2, i - 1, i + 1, i + 2}
        top == SelectSeq(rows, LAMBDA i : \A j \in near(i) : high(d)[i] >= high(d)[j])
        bottom == SelectSeq(rows, LAMBDA i : \A j \in near(i) : low(d)[i] <= low(d)[j])
    IN [resistance_levels |-> [n \in 1..Len(top) |-> high(d)[top[n]]],
        support_levels |-> [n \in 1..Len(bottom) |-> low(d)[bottom[n]]]]

\* The lists resistance_levels and support_levels when the loop has ended,
\* before they are filtered and sorted (they are locals of the function).
candidate_levels(d) ==
    [resistance_levels |-> resistance_levels(high(d), 3),
     support_levels |-> support_levels(low(d), 3)]

\* Faulty variant: the support candidates are not filtered by the latest close.
valid_support_unfiltered(d) ==
    Take(Reverse(sorted(support_levels(low(d), 3))), 3)

\* Faulty variant: the support candidates are sorted ascending (reverse=True lost).
valid_support_ascending(d) ==
    Take(sorted(Below(support_levels(low(d), 3), close(d)[len(d)])), 3)

valid_support(d) ==
    Take(Reverse(sorted(Below(support_levels(low(d), 3), close(d)[len(d)]))), 3)

valid_resistance(d) ==
    Take(sorted(Above(resistance_levels(high(d), 3), close(d)[len(d)])), 3)

\* Levels are in whole price units, as the bars are.
calculate_support_resistance(d) ==
    IF len(d) = 0 \/ len(d) < 5
    THEN [support |-> << >>, resistance |-> << >>, has_current_price |-> FALSE]
    ELSE [support |-> valid_support(d), resistance |-> valid_resistance(d),
          has_current_price |-> TRUE, current_price |-> close(d)[len(d)]]

(***************************************************************************)
(* The Signal Generator                                                    *)
(***************************************************************************)
\* What one rule block does: the signal it appends (if any) and what it adds
\* to buy_signals and sell_signals.  The reason text is left out.
NoSignal == [signals |-> << >>, buy |-> 0, sell |-> 0]

Emit(type, indicator, strength, buy, sell) ==
    [signals |-> << [type |-> type, indicator |-> indicator,
                     strength |-> strength] >>,
     buy |-> buy, sell |-> sell]

\* 1. MA crossover
MARule(d) ==
    LET latest == len(d)
        prev   == len(d) - 1
    IN IF notna(get(d, latest, "MA5")) /\ notna(get(d, latest, "MA20"))
       THEN IF notna(get(d, prev, "MA5")) /\ notna(get(d, prev, "MA20"))
            THEN IF /\ get(d, prev, "MA5") <= get(d, prev, "MA20")
                    /\ get(d, latest, "MA5") > get(d, latest, "MA20")
                 THEN Emit("BUY", "MA", 2, 2, 0)
                 ELSE IF /\ get(d, prev, "MA5") >= get(d, prev, "MA20")
                         /\ get(d, latest, "MA5") < get(d, latest, "MA20")
                 THEN Emit("SELL", "MA", 2, 0, 2)
                 ELSE NoSignal
            ELSE NoSignal
       ELSE NoSignal

\* Faulty variant: the oversold and overbought tests include their boundary.
RSIRule_inclusive(d) ==
    LET rsi == get(d, len(d), "RSI")
    IN IF notna(rsi)
       THEN IF rsi <= 30 * Scale THEN Emit("BUY", "RSI", 2, 2, 0)
            ELSE IF rsi < 40 * Scale THEN Emit("BUY", "RSI", 1, 1, 0)
            ELSE IF rsi >= 70 * Scale THEN Emit("SELL", "RSI", 2, 0, 2)
            ELSE IF rsi > 60 * Scale THEN Emit("SELL", "RSI", 1, 0, 1)
            ELSE NoSignal
       ELSE NoSignal

\* Faulty variant: the oversold signal of strength 2 adds only 1 to buy_signals.
RSIRule_undercount(d) ==
    LET rsi == get(d, len(d), "RSI")
    IN IF notna(rsi)
       THEN IF rsi < 30 * Scale THEN Emit("BUY", "RSI", 2, 1, 0)
            ELSE IF rsi < 40 * Scale THEN Emit("BUY", "RSI", 1, 1, 0)
            ELSE IF rsi > 70 * Scale THEN Emit("SELL", "RSI", 2, 0, 2)
            ELSE IF rsi > 60 * Scale THEN Emit("SELL", "RSI", 1, 0, 1)
            ELSE NoSignal
       ELSE NoSignal

\* Faulty variant: an undefined RSI is read as 0 instead of being skipped.
RSIRule_fillna(d) ==
    LET raw == get(d, len(d), "RSI")
        rsi == IF notna(raw) THEN raw ELSE 0
    IN IF rsi < 30 * Scale THEN Emit("BUY", "RSI", 2, 2, 0)
       ELSE IF rsi < 40 * Scale THEN Emit("BUY", "RSI", 1, 1, 0)
       ELSE IF rsi > 70 * Scale THEN Emit("SELL", "RSI", 2, 0, 2)
       ELSE IF rsi > 60 * Scale THEN Emit("SELL", "RSI", 1, 0, 1)
       ELSE NoSignal

\* 2. RSI
RSIRule(d) ==
    LET rsi == get(d, len(d), "RSI")
    IN IF notna(rsi)
       THEN IF rsi < 30 * Scale THEN Emit("BUY", "RSI", 2, 2, 0)
            ELSE IF rsi < 40 * Scale THEN Emit("BUY", "RSI", 1, 1, 0)
            ELSE IF rsi > 70 * Scale THEN Emit("SELL", "RSI", 2, 0, 2)
            ELSE IF rsi > 60 * Scale THEN Emit("SELL", "RSI", 1, 0, 1)
            ELSE NoSignal
       ELSE NoSignal

\* 3. K/D crossover
KDRule(d) ==
    LET k == get(d, len(d), "K")
        dd == get(d, len(d), "D")
        prev_k == get(d, len(d) - 1, "K")
        prev_d == get(d, len(d) - 1, "D")
    IN IF notna(k) /\ notna(dd)
       THEN IF notna(prev_k) /\ notna(prev_d)
            THEN IF k < 30 * Scale /\ prev_k <= prev_d /\ k > dd
                 THEN Emit("BUY", "KD", 2, 2, 0)
                 ELSE IF k > 70 * Scale /\ prev_k >= prev_d /\ k < dd
                 THEN Emit("SELL", "KD", 2, 0, 2)
                 ELSE NoSignal
            ELSE NoSignal
       ELSE NoSignal

\* 4. MACD crossover
MACDRule(d) ==
    LET macd == get(d, len(d), "MACD")
        signal_line == get(d, len(d), "MACD_Signal")
        prev_macd == get(d, len(d) - 1, "MACD")
        prev_signal == get(d, len(d) - 1, "MACD_Signal")
    IN IF notna(macd) /\ notna(signal_line)
       THEN IF notna(prev_macd) /\ notna(prev_signal)
            THEN IF prev_macd <= prev_signal /\ macd > signal_line
                 THEN Emit("BUY", "MACD", 2, 2, 0)
                 ELSE IF prev_macd >= prev_signal /\ macd < signal_line
                 THEN Emit("SELL", "MACD", 2, 0, 2)
                 ELSE NoSignal
            ELSE NoSignal
       ELSE NoSignal

\* 5. Bollinger touch (the close of a bar is always a number here)
BBRule(d) ==
    LET bb_upper == get(d, len(d), "BB_Upper")
        bb_lower == get(d, len(d), "BB_Lower")
        c == close(d)[len(d)] * Scale
    IN IF notna(bb_upper) /\ notna(bb_lower)
       THEN IF c <= bb_lower THEN Emit("BUY", "BB", 1, 1, 0)
            ELSE IF c >= bb_upper THEN Emit("SELL", "BB", 1, 0, 1)
            ELSE NoSignal
       ELSE NoSignal

\* The five rule blocks in the order the method runs them.
Rules(d) == << MARule(d), RSIRule(d), KDRule(d), MACDRule(d), BBRule(d) >>

RuleNames == << "MA", "RSI", "KD", "MACD", "BB" >>

\* The locals signals, buy_signals and sell_signals after the first n blocks.
RECURSIVE After(_, _)
After(rules, n) ==
    IF n = 0 THEN NoSignal
    ELSE LET before == After(rules, n - 1)
         IN [signals |-> before.signals \o rules[n].signals,
             buy  |-> before.buy + rules[n].buy,
             sell |-> before.sell + rules[n].sell]

\* The band of a score: total_score here, trend_score in the predictor.
Band(score, strong_up, up, strong_down, down, neutral) ==
    IF score >= 4 THEN strong_up
    ELSE IF score >= 2 THEN up
    ELSE IF score <= -4 THEN strong_down
    ELSE IF score <= -2 THEN down
    ELSE neutral

\* Faulty variant: the strong bands start one point late (> 4, < -4).
action_of_late(total_score) ==
    IF total_score > 4 THEN "STRONG_BUY"
    ELSE IF total_score >= 2 THEN "BUY"
    ELSE IF total_score < -4 THEN "STRONG_SELL"
    ELSE IF total_score <= -2 THEN "SELL"
    ELSE "HOLD"

action_of(total_score) ==
    Band(total_score, "STRONG_BUY", "BUY", "STRONG_SELL", "SELL", "HOLD")

recommendation_of(total_score) ==
    Band(total_score, "strong buy signal", "buy signal", "strong sell signal",
         "sell signal", "hold, wait for a clearer signal")

\* generate_trading_signals.  `progress` records the three locals after each
\* of the five blocks (it is not part of the returned dict).
generate_trading_signals(d) ==
    IF len(d) = 0 \/ len(d) < 20
    THEN [signals |-> << >>, recommendation |-> "insufficient data"]
    ELSE LET rules == Rules(d)
             final == After(rules, 5)
             total_score == final.buy - final.sell
         IN [signals |-> final.signals,
             buy_score |-> final.buy,
             sell_score |-> final.sell,
             total_score |-> total_score,
             recommendation |-> recommendation_of(total_score),
             action |-> action_of(total_score),
             progress |-> [n \in 0..5 |->
                 LET a == After(rules, n)
                 IN [signals |-> Len(a.signals), buy |-> a.buy, sell |-> a.sell]]]

(***************************************************************************)
(* The Historical Point Finder                                             *)
(***************************************************************************)
\* Bar i of the code (0-based) is row i + 1 here; prev is row i.
NoScore == [buy |-> 0, sell |-> 0]

\* MA cross of the loop body (lines 544-550).
point_ma(d, i) ==
    LET curr == i + 1
        prev == i
    IN IF notna(get(d, curr, "MA5")) /\ notna(get(d, curr, "MA20"))
       THEN IF notna(get(d, prev, "MA5")) /\ notna(get(d, prev, "MA20"))
            THEN IF /\ get(d, prev, "MA5") <= get(d, prev, "MA20")
                    /\ get(d, curr, "MA5") > get(d, curr, "MA20")
                 THEN [buy |-> 2, sell |-> 0]
                 ELSE IF /\ get(d, prev, "MA5") >= get(d, prev, "MA20")
                         /\ get(d, curr, "MA5") < get(d, curr, "MA20")
                 THEN [buy |-> 0, sell |-> 2]
                 ELSE NoScore
            ELSE NoScore
       ELSE NoScore

\* Faulty variant: the RSI block adds the Signal Generator's strength 2.
point_rsi_strength2(d, i) ==
    LET rsi == get(d, i + 1, "RSI")
    IN IF notna(rsi)
       THEN IF rsi < 30 * Scale THEN [buy |-> 2, sell |-> 0]
            ELSE IF rsi > 70 * Scale THEN [buy |-> 0, sell |-> 2]
            ELSE NoScore
       ELSE NoScore

\* RSI of the loop body (lines 552-558).
point_rsi(d, i) ==
    LET rsi == get(d, i + 1, "RSI")
    IN IF notna(rsi)
       THEN IF rsi < 30 * Scale THEN [buy |-> 1, sell |-> 0]
            ELSE IF rsi > 70 * Scale THEN [buy |-> 0, sell |-> 1]
            ELSE NoScore
       ELSE NoScore

\* KD cross of the loop body (lines 560-567).
point_kd(d, i) ==
    LET k == get(d, i + 1, "K")
        dd == get(d, i + 1, "D")
        prev_k == get(d, i, "K")
        prev_d == get(d, i, "D")
    IN IF notna(k) /\ notna(dd) /\ notna(prev_k) /\ notna(prev_d)
       THEN IF k < 30 * Scale /\ prev_k <= prev_d /\ k > dd
            THEN [buy |-> 2, sell |-> 0]
            ELSE IF k > 70 * Scale /\ prev_k >= prev_d /\ k < dd
            THEN [buy |-> 0, sell |-> 2]
            ELSE NoScore
       ELSE NoScore

\* buy_score and sell_score of bar i when the three blocks have run.
point_scores(d, i) ==
    [buy  |-> point_ma(d, i).buy + point_rsi(d, i).buy + point_kd(d, i).buy,
     sell |-> point_ma(d, i).sell + point_rsi(d, i).sell + point_kd(d, i).sell]

HistoricalPoint(d, i, score) ==
    [index |-> i, price |-> close(d)[i + 1], score |-> score]

\* Faulty variant: the sell test is an `if` of its own, not an `elif`.
record_point_both(d, i, found) ==
    LET sc == point_scores(d, i)
    IN [buy_points  |-> IF sc.buy >= 2
                        THEN Append(found.buy_points, HistoricalPoint(d, i, sc.buy))
                        ELSE found.buy_points,
        sell_points |-> IF sc.sell >= 2
                        THEN Append(found.sell_points, HistoricalPoint(d, i, sc.sell))
                        ELSE found.sell_points]

\* Lines 569-583: bar i is appended to buy_points, else to sell_points.
record_point(d, i, found) ==
    LET sc == point_scores(d, i)
    IN IF sc.buy >= 2
       THEN [found EXCEPT !.buy_points =
                Append(found.buy_points, HistoricalPoint(d, i, sc.buy))]
       ELSE IF sc.sell >= 2
       THEN [found EXCEPT !.sell_points =
                Append(found.sell_points, HistoricalPoint(d, i, sc.sell))]
       ELSE found

\* for i in range(2, len(df)), from bar i on.
RECURSIVE scan_points(_, _, _)
scan_points(d, i, found) ==
    IF i >= len(d) THEN found
    ELSE scan_points(d, i + 1, record_point(d, i, found))

\* find_buy_sell_points.
find_buy_sell_points(d) ==
    IF len(d) = 0 \/ len(d) < 20
    THEN [buy_points |-> << >>, sell_points |-> << >>]
    ELSE scan_points(d, 2, [buy_points |-> << >>, sell_points |-> << >>])

(***************************************************************************)
(* The Trend Predictor                                                     *)
(***************************************************************************)
\* np.polyfit(x, y, 1)[0] for x = 0 .. n-1: the least-squares slope
\* (n sum(xy) - sum(x) sum(y)) / (n sum(x^2) - sum(x)^2).
polyfit_slope(y) ==
    LET n   == Len(y)
        xy  == [j \in 1..n |-> (j - 1) * y[j]]
        xx  == [j \in 1..n |-> (j - 1) * (j - 1)]
        x   == [j \in 1..n |-> j - 1]
        num == n * SumRange(xy, 1, n) - SumRange(x, 1, n) * SumRange(y, 1, n)
        den == n * SumRange(xx, 1, n) - SumRange(x, 1, n) * SumRange(x, 1, n)
    IN (num * Scale) \div den

\* np.std(np.diff(closes) / closes[:-1]): the population standard deviation
\* of the daily returns of the whole table.
returns_std(closes) ==
    LET n == Len(closes) - 1
        returns == [j \in 1..n |->
                      ((closes[j + 1] - closes[j]) * Scale) \div closes[j]]
        mean == SumRange(returns, 1, n) \div n
        dev2 == [j \in 1..n |-> (returns[j] - mean) * (returns[j] - mean)]
    IN ISqrt(SumRange(dev2, 1, n) \div n)

\* x * sqrt(k) for a value x >= 0; sqrt(k) is held to 1/100.
TimesSqrt(x, k) == (x * ISqrt(k * 10000)) \div 100

\* decay_factor ** (i - 1) with decay_factor = 0.8
RECURSIVE decay(_)
decay(i) == IF i <= 1 THEN Scale ELSE (decay(i - 1) * 8) \div 10

\* df[col].iloc[-1] if col in df.columns and it is not NaN, else default
latest_or(d, col, default) ==
    IF d.augmented /\ notna(d.ind[len(d)][col]) THEN d.ind[len(d)][col]
    ELSE default

\* One contribution to trend_score with its entry of trend_factors.
Factor(points, text) == [points |-> points, factors |-> <<text>>]
NoFactor == [points |-> 0, factors |-> << >>]

rsi_factor(rsi) ==
    IF rsi < 30 * Scale THEN Factor(2, "RSI oversold")
    ELSE IF rsi < 40 * Scale THEN Factor(1, "RSI low")
    ELSE IF rsi > 70 * Scale THEN Factor(-2, "RSI overbought")
    ELSE IF rsi > 60 * Scale THEN Factor(-1, "RSI high")
    ELSE NoFactor

kd_tier_factor(k, dd) ==
    IF k < 20 * Scale /\ dd < 20 * Scale THEN Factor(2, "KD low")
    ELSE IF k > 80 * Scale /\ dd > 80 * Scale THEN Factor(-2, "KD high")
    ELSE NoFactor

\* Faulty variant: a tie contributes nothing.
compare_factor_neutral_tie(a, b, above, below) ==
    IF a > b THEN Factor(1, above)
    ELSE IF a < b THEN Factor(-1, below) ELSE NoFactor

\* if a > b: +1 else: -1
compare_factor(a, b, above, below) ==
    IF a > b THEN Factor(1, above) ELSE Factor(-1, below)

\* Section 4 of the method: the contributions in the order they are added.
trend_contributions(d) ==
    LET current_price == close(d)[len(d)] * Scale
        ma5  == latest_or(d, "MA5", current_price)
        ma20 == latest_or(d, "MA20", current_price)
        rsi  == latest_or(d, "RSI", 50 * Scale)
        k    == latest_or(d, "K", 50 * Scale)
        dd   == latest_or(d, "D", 50 * Scale)
        macd == latest_or(d, "MACD", 0)
        macd_signal == latest_or(d, "MACD_Signal", 0)
    IN << rsi_factor(rsi),
          kd_tier_factor(k, dd),
          compare_factor(k, dd, "K > D", "K < D"),
          compare_factor(macd, macd_signal, "MACD bullish", "MACD bearish"),
          compare_factor(ma5, ma20, "MA5 above MA20", "MA5 below MA20"),
          compare_factor(current_price, ma5, "price above MA5", "price below MA5") >>

RECURSIVE SumPoints(_, _)
SumPoints(cs, n) == IF n = 0 THEN 0 ELSE SumPoints(cs, n - 1) + cs[n].points

RECURSIVE AllFactors(_, _)
AllFactors(cs, n) ==
    IF n = 0 THEN << >> ELSE AllFactors(cs, n - 1) \o cs[n].factors

\* One pass of the loop `for i in range(1, days + 1)`.
prediction(i, current_price, slope, trend_score, daily_volatility) ==
    LET effective_slope == (slope * decay(i)) \div Scale
        base_price == current_price * Scale + effective_slope * i
        trend_adjustment == (trend_score * current_price * 2 * i * Scale) \div 7000
        adjusted_price == base_price + trend_adjustment
        std_dev == TimesSqrt(current_price * daily_volatility, i)
        half == (196 * std_dev) \div 100
        upper_bound == adjusted_price + half
        lower_bound == Max(adjusted_price - half, 0)
    IN [day |-> i,
        predicted_price |-> round2(adjusted_price),
        upper_bound |-> round2(upper_bound),
        lower_bound |-> round2(lower_bound),
        change_pct |-> round2(((adjusted_price - current_price * Scale) * 100)
                                  \div current_price)]

overall_trend_of(trend_score) ==
    Band(trend_score, "STRONG_UP", "UP", "STRONG_DOWN", "DOWN", "NEUTRAL")

\* Faulty variant: the last level of the list is taken (support[-1]).
last_or(levels, fallback) ==
    IF levels # << >> THEN levels[Len(levels)] * Scale ELSE fallback

\* support[0] if support else fallback
first_or(levels, fallback) ==
    IF levels # << >> THEN levels[1] * Scale ELSE fallback

\* Lines 607-771 of predict_future_trend: the forecast of a table that is
\* long enough.
forecast(d, days) ==
         LET closes == close(d)
             current_price == closes[len(d)]
             recent_days == Min(20, len(d))
             recent_closes == SubSeq(closes, len(d) - recent_days + 1, len(d))
             slope == polyfit_slope(recent_closes)
             ma5  == latest_or(d, "MA5", current_price * Scale)
             ma20 == latest_or(d, "MA20", current_price * Scale)
             daily_volatility == returns_std(closes)
             contributions == trend_contributions(d)
             trend_score == SumPoints(contributions, Len(contributions))
             overall_trend == overall_trend_of(trend_score)
             sr == calculate_support_resistance(d)
             up == (current_price * Scale * 105) \div 100
             down == (current_price * Scale * 95) \div 100
             target_price ==
                 IF overall_trend \in {"STRONG_UP", "UP"}
                 THEN first_or(sr.resistance, up)
                 ELSE IF overall_trend \in {"STRONG_DOWN", "DOWN"}
                 THEN first_or(sr.support, down)
                 ELSE current_price * Scale
             stop_loss ==
                 IF overall_trend \in {"STRONG_UP", "UP"}
                 THEN first_or(sr.support, down)
                 ELSE IF overall_trend \in {"STRONG_DOWN", "DOWN"}
                 THEN first_or(sr.resistance, up)
                 ELSE first_or(sr.support, (current_price * Scale * 97) \div 100)
         IN [current_price |-> current_price * Scale,
             trend |-> overall_trend,
             trend_score |-> trend_score,
             trend_factors |-> AllFactors(contributions, Len(contributions)),
             predictions |-> [i \in 1..Max(days, 0) |->
                 prediction(i, current_price, slope, trend_score, daily_volatility)],
             daily_volatility |-> round2(daily_volatility * 100),
             slope |-> slope,
             slope_direction |-> IF slope > 0 THEN "UP" ELSE "DOWN",
             ma_trend |-> IF ma5 > ma20 THEN "UP" ELSE "DOWN",
             target_price |-> round2(target_price),
             stop_loss |-> round2(stop_loss),
             support_levels |-> Take(sr.support, 3),
             resistance_levels |-> Take(sr.resistance, 3)]

\* Faulty variant: the length guard is off by one and lets 19 rows through.
predict_future_trend_min19(d, days) ==
    IF len(d) = 0 \/ len(d) < 19 THEN [error |-> "insufficient data"]
    ELSE forecast(d, days)

\* predict_future_trend(df, days): a dict with the single key 'error' when the
\* table is empty or has fewer than 20 rows.
predict_future_trend(d, days) ==
    IF len(d) = 0 \/ len(d) < 20 THEN [error |-> "insufficient data"]
    ELSE forecast(d, days)

(***************************************************************************)
(* The calls                                                               *)
(***************************************************************************)
\* No call is in progress and no result is waiting to be read.
Idle == ret.op = "none"

Init ==
    /\ df \in Tables
    /\ ret = [op |-> "none"]

\* df = fetcher.calculate_technical_indicators(df)   (stock_tools.py:268)
CalculateTechnicalIndicators ==
    /\ Idle
    /\ df' = calculate_technical_indicators(df)
    /\ ret' = [op |-> "calculate_technical_indicators", rows |-> len(df),
               input |-> caller_table(df)]

\* sr = fetcher.calculate_support_resistance(df)
\* `candidates` records the locals resistance_levels and support_levels (they
\* are not part of the returned dict).
CalculateSupportResistance ==
    /\ Idle
    /\ ret' = [op |-> "calculate_support_resistance", rows |-> len(df),
               sr |-> calculate_support_resistance(df),
               candidates |-> IF len(df) = 0 \/ len(df) < 5
                              THEN [resistance_levels |-> << >>,
                                    support_levels |-> << >>]
                              ELSE candidate_levels(df)]
    /\ UNCHANGED df

\* signals = fetcher.generate_trading_signals(df)
GenerateTradingSignals ==
    /\ Idle
    /\ ret' = [op |-> "generate_trading_signals", rows |-> len(df),
               report |-> generate_trading_signals(df)]
    /\ UNCHANGED df

\* The values of `days` a caller passes.
\* `scores` records the locals buy_score and sell_score of every bar of the
\* loop (it is not part of the returned dict).
FindBuySellPoints ==
    /\ Idle
    /\ ret' = [op |-> "find_buy_sell_points", rows |-> len(df),
               points |-> find_buy_sell_points(df),
               scores |-> IF len(df) = 0 \/ len(df) < 20 THEN << >>
                          ELSE [n \in 1..(len(df) - 2) |-> point_scores(df, n + 1)]]
    /\ UNCHANGED df

MaxDays == 11
DaysRequested == -1 .. MaxDays

\* prediction = fetcher.predict_future_trend(df, days=days), called directly
PredictFutureTrend(days) ==
    /\ Idle
    /\ ret' = [op |-> "predict_future_trend", rows |-> len(df), days |-> days,
               forecast |-> predict_future_trend(df, days)]
    /\ UNCHANGED df

\* Faulty variant: only the upper limit is applied.
clamp_days_upper(days) == Min(days, 10)

\* days = min(max(days, 1), 10)
clamp_days(days) == Min(Max(days, 1), 10)

\* StockPredictionTool._run(stock_id, days) from the clamp on: the history
\* it fetches is the table df; an empty history and a failed prediction
\* return a message, a forecast is formatted into the returned text (the
\* model keeps the forecast itself).  Chart drawing is left out.
StockPredictionTool_run(days) ==
    LET clamped == clamp_days(days)
    IN IF len(df) = 0
       THEN /\ Idle
            /\ ret' = [op |-> "StockPredictionTool._run", rows |-> 0,
                       days |-> days, forecast |-> [error |-> "no history"]]
            /\ UNCHANGED df
       ELSE /\ Idle
            /\ df' = calculate_technical_indicators(df)
            /\ ret' = [op |-> "StockPredictionTool._run", rows |-> len(df),
                       days |-> days,
                       forecast |-> predict_future_trend(df', clamped)]

\* The caller has read the returned value; the table stays as it is.
Return ==
    /\ ~Idle
    /\ ret' = [op |-> "none"]
    /\ UNCHANGED df

Next ==
    \/ Return
    \/ CalculateTechnicalIndicators
    \/ \E days \in DaysRequested : PredictFutureTrend(days)
    \/ \E days \in DaysRequested : StockPredictionTool_run(days)
    \/ CalculateSupportResistance
    \/ GenerateTradingSignals
    \/ FindBuySellPoints

Spec == Init /\ [][Next]_vars

(***************************************************************************)
(* Properties                                                              *)
(***************************************************************************)
IndicatorFields ==
    {"MA5", "MA10", "MA20", "MA60", "RSI", "MACD", "MACD_Signal", "MACD_Hist",
     "K", "D", "BB_Upper", "BB_Middle", "BB_Lower"}

CalledIndicators == ret.op = "calculate_technical_indicators"
CalledSignals    == ret.op = "generate_trading_signals"
CalledLevels     == ret.op = "calculate_support_resistance"
CalledPredictor  == ret.op = "predict_future_trend"
CalledTool       == ret.op = "StockPredictionTool._run"

\* A SignalReport: the result of the Signal Generator on 20 rows or more.
HasReport == CalledSignals /\ ret.rows >= 20

\* A TrendForecast, from a direct call or through the tool.
HasForecast ==
    (CalledPredictor \/ CalledTool) /\ "error" \notin DOMAIN ret.forecast

SignalsOf(report, indicator) ==
    SelectSeq(report.signals, LAMBDA sig : sig.indicator = indicator)

Signal(type, indicator, strength) ==
    [type |-> type, indicator |-> indicator, strength |-> strength]

LatestRSI == get(df, len(df), "RSI")

\* C1: calculate_technical_indicators on a table of fewer than 20 bars
\* returns the table it was given, unaugmented: no indicator field is defined
\* on any bar.
C1_ShortTableUnaugmented ==
    (CalledIndicators /\ ret.rows < 20) =>
        /\ df = ret.input
        /\ ~df.augmented
        /\ \A i \in 1..len(df) : \A f \in IndicatorFields : ~notna(get(df, i, f))

C1_Witness ==
    CalledIndicators /\ ret.rows = 10 /\ ~df.augmented

\* C2: on a table of fewer than 20 bars generate_trading_signals returns an
\* empty signal list with the insufficient-data recommendation and nothing
\* else, and predict_future_trend returns an error result without any
\* forecast field.
C2_InsufficientData ==
    /\ (CalledSignals /\ ret.rows < 20) =>
          /\ ret.report.signals = << >>
          /\ ret.report.recommendation = "insufficient data"
          /\ DOMAIN ret.report = {"signals", "recommendation"}
    /\ (CalledPredictor /\ ret.rows < 20) =>
          /\ DOMAIN ret.forecast = {"error"}
          /\ ret.forecast.error = "insufficient data"

C2_Witness ==
    CalledPredictor /\ ret.rows = 19 /\ ret.days = 3
        /\ DOMAIN ret.forecast = {"error"}

\* C3: in every SignalReport total_score = buy_score - sell_score, and the
\* action is STRONG_BUY iff total_score >= 4, BUY iff 2..3, STRONG_SELL iff
\* <= -4, SELL iff -3..-2 and HOLD iff -1..1.
C3_ScoreBands ==
    HasReport =>
        LET r == ret.report
            t == r.total_score
        IN /\ t = r.buy_score - r.sell_score
           /\ (r.action = "STRONG_BUY")  <=> (t >= 4)
           /\ (r.action = "BUY")         <=> (t >= 2 /\ t <= 3)
           /\ (r.action = "STRONG_SELL") <=> (t <= -4)
           /\ (r.action = "SELL")        <=> (t >= -3 /\ t <= -2)
           /\ (r.action = "HOLD")        <=> (t >= -1 /\ t <= 1)

C3_Witness ==
    HasReport /\ ret.report.total_score = 4 /\ ret.report.action = "STRONG_BUY"

\* C4 as stated: the RSI rule has exclusive boundaries on both sides, so an
\* RSI of exactly 30, 40, 60 or 70 gives no RSI signal.
C4_ExclusiveBoundaries ==
    (HasReport /\ notna(LatestRSI)) =>
        LET rsi == LatestRSI
            got == SignalsOf(ret.report, "RSI")
        IN got = IF rsi < 30 * Scale THEN << Signal("BUY", "RSI", 2) >>
                 ELSE IF rsi > 30 * Scale /\ rsi < 40 * Scale
                      THEN << Signal("BUY", "RSI", 1) >>
                 ELSE IF rsi > 70 * Scale THEN << Signal("SELL", "RSI", 2) >>
                 ELSE IF rsi > 60 * Scale /\ rsi < 70 * Scale
                      THEN << Signal("SELL", "RSI", 1) >>
                 ELSE << >>

\* C4 (amended): the RSI rule fires at most one signal per report: RSI < 30
\* gives BUY 2; 30 <= RSI < 40 gives BUY 1; RSI > 70 gives SELL 2;
\* 60 < RSI <= 70 gives SELL 1; 40 <= RSI <= 60 gives no RSI signal.  So an
\* RSI of exactly 30 is a BUY 1 and of exactly 70 a SELL 1, while exactly 40
\* or 60 gives none.
C4_RSIThresholds ==
    (HasReport /\ notna(LatestRSI)) =>
        LET rsi == LatestRSI
            got == SignalsOf(ret.report, "RSI")
        IN got = IF rsi < 30 * Scale THEN << Signal("BUY", "RSI", 2) >>
                 ELSE IF rsi < 40 * Scale THEN << Signal("BUY", "RSI", 1) >>
                 ELSE IF rsi > 70 * Scale THEN << Signal("SELL", "RSI", 2) >>
                 ELSE IF rsi > 60 * Scale THEN << Signal("SELL", "RSI", 1) >>
                 ELSE << >>

C4_Witness ==
    HasReport /\ LatestRSI = 30 * Scale
        /\ SignalsOf(ret.report, "RSI") = << Signal("BUY", "RSI", 1) >>

\* C5: when the RSI of the final bar is defined and below 30, the
\* SignalReport holds a BUY signal tagged RSI and buy_score >= 2, whatever
\* the other rules contribute.
C5_OversoldBuys ==
    (HasReport /\ notna(LatestRSI) /\ LatestRSI < 30 * Scale) =>
        /\ \E n \in 1..Len(ret.report.signals) :
              /\ ret.report.signals[n].type = "BUY"
              /\ ret.report.signals[n].indicator = "RSI"
        /\ ret.report.buy_score >= 2

\* Another rule votes the other way in the same report.
C5_Witness ==
    /\ HasReport /\ notna(LatestRSI) /\ LatestRSI < 30 * Scale
    /\ ret.report.sell_score >= 2
    /\ ret.report.buy_score >= 2

\* The indicator values rule n of the Signal Generator reads.
RuleInputs(n) ==
    LET latest == len(df)
        prev   == len(df) - 1
    IN IF n = 1 THEN << get(df, latest, "MA5"), get(df, latest, "MA20"),
                        get(df, prev, "MA5"), get(df, prev, "MA20") >>
       ELSE IF n = 2 THEN << get(df, latest, "RSI") >>
       ELSE IF n = 3 THEN << get(df, latest, "K"), get(df, latest, "D"),
                             get(df, prev, "K"), get(df, prev, "D") >>
       ELSE IF n = 4 THEN << get(df, latest, "MACD"), get(df, latest, "MACD_Signal"),
                             get(df, prev, "MACD"), get(df, prev, "MACD_Signal") >>
       ELSE << get(df, latest, "BB_Upper"), get(df, latest, "BB_Lower") >>

RuleUndefined(n) == \E j \in 1..Len(RuleInputs(n)) : ~notna(RuleInputs(n)[j])

\* C6: a rule of generate_trading_signals whose indicator values are
\* undefined appends no signal and leaves buy_score and sell_score as the
\* rules before it left them.
C6_UndefinedSkipped ==
    HasReport =>
        \A n \in 1..5 :
            RuleUndefined(n) =>
                /\ ret.report.progress[n] = ret.report.progress[n - 1]
                /\ SignalsOf(ret.report, RuleNames[n]) = << >>

\* The RSI is undefined on an augmented table and a later rule still fires.
C6_Witness ==
    /\ HasReport /\ df.augmented /\ RuleUndefined(2)
    /\ ret.report.progress[5] # ret.report.progress[2]

\* C7: every support level returned is strictly below the latest close and
\* every resistance level strictly above it.
C7_LevelsStraddleClose ==
    CalledLevels =>
        /\ \A n \in 1..Len(ret.sr.support) :
              ret.sr.support[n] < close(df)[len(df)]
        /\ \A n \in 1..Len(ret.sr.resistance) :
              ret.sr.resistance[n] > close(df)[len(df)]

C7_Witness ==
    CalledLevels /\ ret.sr.support # << >> /\ ret.sr.resistance # << >>

\* The rows whose low (high) lies strictly below (above) the lows (highs) of
\* the two rows on each side, and on the right side of the latest close.
SupportRows ==
    { i \in 3..(len(df) - 2) :
        /\ \A j \in {i - 2, i - 1, i + 1, i + 2} : low(df)[i] < low(df)[j]
        /\ low(df)[i] < close(df)[len(df)] }

ResistanceRows ==
    { i \in 3..(len(df) - 2) :
        /\ \A j \in {i - 2, i - 1, i + 1, i + 2} : high(df)[i] > high(df)[j]
        /\ high(df)[i] > close(df)[len(df)] }

Occurrences(xs, v) == Cardinality({n \in 1..Len(xs) : xs[n] = v})

\* C8: at most 3 support and 3 resistance levels; the support list holds the
\* (up to) three largest support candidates below the latest close, largest
\* first, the resistance list the (up to) three smallest resistance
\* candidates above it, smallest first; both are empty under 5 bars.
C8_NearestThree ==
    CalledLevels =>
        LET sup == ret.sr.support
            res == ret.sr.resistance
        IN /\ Len(sup) = Min(3, Cardinality(SupportRows))
           /\ Len(res) = Min(3, Cardinality(ResistanceRows))
           /\ \A n \in 1..(Len(sup) - 1) : sup[n] >= sup[n + 1]
           /\ \A n \in 1..(Len(res) - 1) : res[n] <= res[n + 1]
           /\ \A i \in SupportRows :
                 LET v == low(df)[i]
                     same   == Cardinality({j \in SupportRows : low(df)[j] = v})
                     nearer == Cardinality({j \in SupportRows : low(df)[j] > v})
                 IN Occurrences(sup, v) = Min(same, Max(0, 3 - nearer))
           /\ \A i \in ResistanceRows :
                 LET v == high(df)[i]
                     same   == Cardinality({j \in ResistanceRows : high(df)[j] = v})
                     nearer == Cardinality({j \in ResistanceRows : high(df)[j] < v})
                 IN Occurrences(res, v) = Min(same, Max(0, 3 - nearer))
           /\ \A n \in 1..Len(sup) : \E i \in SupportRows : low(df)[i] = sup[n]
           /\ \A n \in 1..Len(res) : \E i \in ResistanceRows : high(df)[i] = res[n]
           /\ ret.rows < 5 => (sup = << >> /\ res = << >>)

\* More than three candidates lie below the close and three are returned.
C8_Witness ==
    CalledLevels /\ Cardinality(SupportRows) > 3 /\ Len(ret.sr.support) = 3

\* C9: for every horizon day of a forecast lower_bound >= 0 and
\* upper_bound >= predicted_price >= lower_bound, after rounding and also
\* when the predicted price is negative.
C9_BoundsOrdered ==
    HasForecast =>
        \A n \in 1..Len(ret.forecast.predictions) :
            LET p == ret.forecast.predictions[n]
            IN /\ p.lower_bound >= 0
               /\ p.upper_bound >= p.predicted_price
               /\ p.predicted_price >= p.lower_bound

\* C10 as stated: the Trend Predictor itself clamps days into 1..10.
C10_PredictorClamps ==
    HasForecast =>
        /\ Len(ret.forecast.predictions) = Min(Max(ret.days, 1), 10)
        /\ \A n \in 1..Len(ret.forecast.predictions) :
              ret.forecast.predictions[n].day = n

\* C10 (amended): predict_future_trend produces one entry per requested day,
\* none for days <= 0 and more than 10 for days > 10; the clamp into 1..10 is
\* made by StockPredictionTool._run before it calls the predictor, so a
\* forecast made through the tool has days clamped into 1..10 entries (1 for
\* days <= 0, 10 for days > 10).  In both the day fields run 1..d in order.
C10_ToolClamps ==
    HasForecast =>
        /\ CalledPredictor => Len(ret.forecast.predictions) = Max(ret.days, 0)
        /\ CalledTool =>
              Len(ret.forecast.predictions) =
                  (IF ret.days <= 0 THEN 1 ELSE IF ret.days > 10 THEN 10 ELSE ret.days)
        /\ \A n \in 1..Len(ret.forecast.predictions) :
              ret.forecast.predictions[n].day = n

C10_Witness ==
    HasForecast /\ CalledTool /\ ret.days = 11
        /\ Len(ret.forecast.predictions) = 10

CalledFinder == ret.op = "find_buy_sell_points"

\* The rows of the table up to row n: its latest row is bar n - 1 of the code
\* and the previous one is bar n - 2.
Upto(d, n) ==
    [bars |-> SubSeq(d.bars, 1, n), augmented |-> d.augmented,
     ind |-> IF d.augmented THEN SubSeq(d.ind, 1, n) ELSE << >>]

\* The bars the loop of find_buy_sell_points visits (0-based, as the code
\* counts them); ret.scores[i - 1] holds the scores of bar i.
BarsVisited == IF CalledFinder THEN {n + 1 : n \in DOMAIN ret.scores} ELSE {}

ScoresOf(i) == ret.scores[i - 1]

\* C11 as stated: the scores of bar i are the sums of the strengths that the
\* Signal Generator's MA, RSI and K/D rules give on (bar i, bar i - 1).
C11_ReplaysGenerator ==
    CalledFinder =>
        \A i \in BarsVisited :
            LET u == Upto(df, i + 1)
            IN /\ ScoresOf(i).buy =
                     MARule(u).buy + RSIRule(u).buy + KDRule(u).buy
               /\ ScoresOf(i).sell =
                     MARule(u).sell + RSIRule(u).sell + KDRule(u).sell

\* C11 (amended): for every bar i >= 2 the scores are the strengths of the
\* Signal Generator's MA-crossover and K/D-crossover rules on (bar i, bar
\* i - 1), plus an RSI part of its own: 1 to buy_score when RSI < 30, 1 to
\* sell_score when RSI > 70, nothing for any other or an undefined RSI.
C11_ReplaysCrossovers ==
    CalledFinder =>
        \A i \in BarsVisited :
            LET u   == Upto(df, i + 1)
                rsi == get(df, i + 1, "RSI")
            IN /\ ScoresOf(i).buy =
                     MARule(u).buy + KDRule(u).buy
                       + (IF notna(rsi) /\ rsi < 30 * Scale THEN 1 ELSE 0)
               /\ ScoresOf(i).sell =
                     MARule(u).sell + KDRule(u).sell
                       + (IF notna(rsi) /\ rsi > 70 * Scale THEN 1 ELSE 0)

\* A bar scores 3: a crossover of strength 2 and an RSI part of 1.
C11_Witness ==
    CalledFinder /\ \E i \in BarsVisited : ScoresOf(i).buy = 3

PointIndexes(points) == [n \in 1..Len(points) |-> points[n].index]

\* C12: bar i is a buy point iff its buy_score >= 2 and a sell point iff its
\* sell_score >= 2 and its buy_score < 2; no bar is in both sequences and
\* each sequence is strictly ascending by index.
C12_PointsByScore ==
    CalledFinder =>
        LET buys  == PointIndexes(ret.points.buy_points)
            sells == PointIndexes(ret.points.sell_points)
            InSeq(xs, i) == \E n \in 1..Len(xs) : xs[n] = i
        IN /\ \A i \in BarsVisited :
                 /\ InSeq(buys, i) <=> ScoresOf(i).buy >= 2
                 /\ InSeq(sells, i) <=>
                        (ScoresOf(i).sell >= 2 /\ ScoresOf(i).buy < 2)
           /\ \A n \in 1..Len(buys) : buys[n] \in BarsVisited
           /\ \A n \in 1..Len(sells) : sells[n] \in BarsVisited
           /\ \A n \in 1..Len(buys) : ~InSeq(sells, buys[n])
           /\ \A n \in 1..(Len(buys) - 1) : buys[n] < buys[n + 1]
           /\ \A n \in 1..(Len(sells) - 1) : sells[n] < sells[n + 1]

\* A bar with both scores at 2 or more is a buy point only.
C12_Witness ==
    /\ CalledFinder
    /\ \E i \in BarsVisited : ScoresOf(i).buy >= 2 /\ ScoresOf(i).sell >= 2
    /\ ret.points.sell_points # << >>

\* The contributions to trend_score of the table the forecast was made from:
\* RSI tier, K/D (tier and K-vs-D position together), MACD vs Signal, MA5 vs
\* MA20, close vs MA5.
Contribution ==
    LET cs == trend_contributions(df)
    IN [rsi |-> cs[1].points, kd |-> cs[2].points + cs[3].points,
        macd |-> cs[4].points, ma |-> cs[5].points, price |-> cs[6].points]

\* C13: trend_score lies in -7..+7, the K/D contribution in -2..+2, the RSI
\* contribution in -2..+2 and each of the MACD, MA and close-vs-MA5
\* contributions is +1 or -1.  (Lines 657-668 add the K/D tier, +2 or -2,
\* and the K-vs-D position, +1 or -1, independently: together they reach +3
\* and -3, and the five contributions can sum to +8 or -8, while the comment
\* at line 704 and the division by 7 at line 706 take the range as -7..+7.)
C13_ScoreWithinSeven ==
    HasForecast =>
        /\ ret.forecast.trend_score \in -7..7
        /\ Contribution.kd \in -2..2
        /\ Contribution.rsi \in -2..2
        /\ Contribution.macd \in {-1, 1}
        /\ Contribution.ma \in {-1, 1}
        /\ Contribution.price \in {-1, 1}

\* The level nearest to the latest close on each side, in 1/Scale units, or
\* the given share (in hundredths) of the latest close when there is none.
NearestResistanceOr(pct) ==
    IF ResistanceRows # {}
    THEN Scale * (CHOOSE v \in {high(df)[i] : i \in ResistanceRows} :
                     \A i \in ResistanceRows : v <= high(df)[i])
    ELSE (close(df)[len(df)] * pct * Scale) \div 100

NearestSupportOr(pct) ==
    IF SupportRows # {}
    THEN Scale * (CHOOSE v \in {low(df)[i] : i \in SupportRows} :
                     \A i \in SupportRows : v >= low(df)[i])
    ELSE (close(df)[len(df)] * pct * Scale) \div 100

\* C14: with trend_score >= 2 the target is the nearest resistance, else
\* 1.05 x close, and the stop the nearest support, else 0.95 x close; with
\* trend_score <= -2 the target is the nearest support, else 0.95 x close,
\* and the stop the nearest resistance, else 1.05 x close; otherwise the
\* target is the close and the stop the nearest support, else 0.97 x close.
C14_TargetAndStop ==
    HasForecast =>
        LET f == ret.forecast
            current_price == close(df)[len(df)] * Scale
        IN IF f.trend_score >= 2
           THEN /\ f.target_price = NearestResistanceOr(105)
                /\ f.stop_loss = NearestSupportOr(95)
           ELSE IF f.trend_score <= -2
           THEN /\ f.target_price = NearestSupportOr(95)
                /\ f.stop_loss = NearestResistanceOr(105)
           ELSE /\ f.target_price = current_price
                /\ f.stop_loss = NearestSupportOr(97)

\* A down-trend with two or more supports under the close and no resistance
\* above it: the target is a level, the stop a fallback.
C14_Witness ==
    /\ HasForecast /\ ret.forecast.trend_score <= -2
    /\ Cardinality({low(df)[i] : i \in SupportRows}) >= 2
    /\ ResistanceRows = {}

\* An IndicatorFrame: the table after calculate_technical_indicators has
\* augmented it.
HasIndicators == df.augmented

\* The sums of the rises and of the falls of the close over the 14 rows that
\* end at row i (the first row of a table has no change).  The averages of
\* the code are these sums divided by 14.
WindowChange(i, sign) ==
    LET c == close(df)
        moves == [j \in 1..len(df) |->
                     IF j > 1 /\ sign * (c[j] - c[j - 1]) > 0
                     THEN sign * (c[j] - c[j - 1]) ELSE 0]
    IN SumRange(moves, i - 13, i)

\* The indicators of row i that need no more history than the RSI.
OthersComputed(i) ==
    /\ \A f \in {"MA5", "MA10", "MACD", "MACD_Signal", "MACD_Hist"} :
          notna(get(df, i, f))
    /\ i >= 20 =>
          \A f \in {"MA20", "BB_Upper", "BB_Middle", "BB_Lower"} :
              notna(get(df, i, f))

\* C15 as stated: RSI is undefined at every bar whose average loss over the
\* window is 0, whether the average gain is 0 or positive, and the other
\* indicators of that bar are still computed.
C15_ZeroLossUndefined ==
    HasIndicators =>
        \A i \in 14..len(df) :
            WindowChange(i, -1) = 0 =>
                ~notna(get(df, i, "RSI")) /\ OthersComputed(i)

\* C15 (amended): at a bar whose average loss over the window is 0, RSI is
\* undefined only when the average gain is 0 too (flat closes); when the
\* average gain is positive RSI is the number 100.  The other indicators of
\* that bar are computed in both cases.
C15_ZeroLossRSI ==
    HasIndicators =>
        \A i \in 14..len(df) :
            WindowChange(i, -1) = 0 =>
                /\ WindowChange(i, 1) = 0 => ~notna(get(df, i, "RSI"))
                /\ WindowChange(i, 1) > 0 => get(df, i, "RSI") = 100 * Scale
                /\ OthersComputed(i)

\* One table holds a flat window (RSI undefined) and, later, a window with
\* a rise and no fall (RSI 100).
C15_Witness ==
    /\ HasIndicators /\ CalledIndicators
    /\ \E i \in 14..len(df) :
          WindowChange(i, -1) = 0 /\ WindowChange(i, 1) = 0
             /\ ~notna(get(df, i, "RSI"))
    /\ \E i \in 14..len(df) :
          WindowChange(i, -1) = 0 /\ WindowChange(i, 1) > 0
             /\ get(df, i, "RSI") = 100 * Scale

\* The 9-bar range that ends at row i is flat: its highest high equals its
\* lowest low.
FlatRange(i) ==
    /\ i >= 9
    /\ \A j \in (i - 8)..i, m \in (i - 8)..i : high(df)[j] = low(df)[m]

\* Some row before row i has a full 9-bar range that is not flat.
RangeSeenBefore(i) == \E j \in 9..(i - 1) : ~FlatRange(j)

\* C16 as stated: at every bar whose 9-bar range is flat, %K and %D are
\* undefined, also when earlier bars had a defined %K.
C16_FlatRangeUndefined ==
    HasIndicators =>
        \A i \in 9..len(df) :
            FlatRange(i) =>
                ~notna(get(df, i, "K")) /\ ~notna(get(df, i, "D"))

\* C16 (amended): at a bar whose 9-bar range is flat, %K and %D are
\* undefined only while no earlier bar had a defined %K; once an earlier
\* bar had one, the exponential smoothing carries it forward: %K repeats
\* the %K of the bar before and %D is a defined number.
C16_FlatRangeCarries ==
    HasIndicators =>
        \A i \in 9..len(df) :
            FlatRange(i) =>
                IF RangeSeenBefore(i)
                THEN /\ notna(get(df, i, "K"))
                     /\ get(df, i, "K") = get(df, i - 1, "K")
                     /\ notna(get(df, i, "D"))
                ELSE ~notna(get(df, i, "K")) /\ ~notna(get(df, i, "D"))

\* A flat range after a range that was not flat: %K is carried forward.
C16_Witness ==
    /\ HasIndicators /\ CalledIndicators
    /\ \E i \in 9..len(df) :
          FlatRange(i) /\ RangeSeenBefore(i) /\ notna(get(df, i, "K"))

\* C17: every defined RSI value of an IndicatorFrame lies in [0, 100].
C17_RSIInRange ==
    HasIndicators =>
        \A i \in 1..len(df) :
            notna(get(df, i, "RSI")) =>
                get(df, i, "RSI") >= 0 /\ get(df, i, "RSI") <= 100 * Scale

\* A frame whose RSI touches one end of the range and lies strictly inside
\* it on another bar.
C17_Witness ==
    /\ HasIndicators /\ CalledIndicators
    /\ \E i \in 1..len(df) : get(df, i, "RSI") \in {0, 100 * Scale}
    /\ \E i \in 1..len(df) :
          get(df, i, "RSI") > 50 * Scale /\ get(df, i, "RSI") < 100 * Scale

\* Every bar closes within its own range.
ClosesWithinRange ==
    \A i \in 1..len(df) :
        low(df)[i] <= close(df)[i] /\ close(df)[i] <= high(df)[i]

PercentagesInRange ==
    \A i \in 1..len(df) : \A f \in {"K", "D"} :
        notna(get(df, i, f)) =>
            get(df, i, f) >= 0 /\ get(df, i, f) <= 100 * Scale

\* C18 as stated: every defined %K and %D lies in [0, 100], also on tables
\* with a bar whose close lies outside that bar's [low, high].
C18_KDInRangeAlways == HasIndicators => PercentagesInRange

\* C18 (amended): every defined %K and %D lies in [0, 100] on tables whose
\* bars all close within their own [low, high]; a close above the highest
\* high or below the lowest low of its 9-bar window puts %K, and with it
\* %D, outside [0, 100].
C18_KDInRangeOfBars ==
    (HasIndicators /\ ClosesWithinRange) => PercentagesInRange

\* %K reaches 100 on one bar and lies strictly inside the range on another.
C18_Witness ==
    /\ HasIndicators /\ CalledIndicators /\ ClosesWithinRange
    /\ \E i \in 1..len(df) : get(df, i, "K") = 100 * Scale
    /\ \E i \in 1..len(df) :
          get(df, i, "K") > 0 /\ get(df, i, "K") < 100 * Scale

\* C19: at every bar where MACD and Signal are defined, the MACD Histogram
\* equals MACD minus Signal.
C19_HistogramIsDifference ==
    HasIndicators =>
        \A i \in 1..len(df) :
            (notna(get(df, i, "MACD")) /\ notna(get(df, i, "MACD_Signal"))) =>
                get(df, i, "MACD_Hist") =
                    get(df, i, "MACD") - get(df, i, "MACD_Signal")

\* A frame with a positive histogram on one bar and a negative one on another.
C19_Witness ==
    /\ HasIndicators /\ CalledIndicators
    /\ \E i \in 1..len(df) :
          notna(get(df, i, "MACD_Hist")) /\ get(df, i, "MACD_Hist") > 0
    /\ \E i \in 1..len(df) :
          notna(get(df, i, "MACD_Hist")) /\ get(df, i, "MACD_Hist") < 0

BandsDefined(i) ==
    \A f \in {"BB_Upper", "BB_Middle", "BB_Lower"} : notna(get(df, i, f))

\* C20: at every bar where the Bollinger bands are defined,
\* Upper >= Middle >= Lower and Middle equals MA20 of that bar.
C20_BandsOrdered ==
    HasIndicators =>
        \A i \in 1..len(df) :
            BandsDefined(i) =>
                /\ get(df, i, "BB_Upper") >= get(df, i, "BB_Middle")
                /\ get(df, i, "BB_Middle") >= get(df, i, "BB_Lower")
                /\ get(df, i, "BB_Middle") = get(df, i, "MA20")

\* Bands that stand apart on the last bar.
C20_Witness ==
    /\ HasIndicators /\ CalledIndicators /\ BandsDefined(len(df))
    /\ get(df, len(df), "BB_Upper") > get(df, len(df), "BB_Middle")
    /\ get(df, len(df), "BB_Middle") > get(df, len(df), "BB_Lower")

\* The standard deviation of the 20 closes that end at row i, to 1/100:
\* the square root of the sum of squared deviations from their mean divided
\* by `divisor` (20: population, 19: sample).  With sx the sum and sxx the
\* sum of squares, the sum of squared deviations is (20 sxx - sx^2) / 20.
DeviationOfLast20(i, divisor) ==
    LET c   == close(df)
        sq  == [j \in 1..len(df) |-> c[j] * c[j]]
        sx  == SumRange(c, i - 19, i)
        sxx == SumRange(sq, i - 19, i)
    IN ISqrt(((20 * sxx - sx * sx) * 10000) \div (20 * divisor))
           * (Scale \div 100)

BandsAround(i, divisor) ==
    /\ BandsDefined(i)
    /\ get(df, i, "BB_Upper") =
          get(df, i, "BB_Middle") + 2 * DeviationOfLast20(i, divisor)
    /\ get(df, i, "BB_Lower") =
          get(df, i, "BB_Middle") - 2 * DeviationOfLast20(i, divisor)

\* C21 as stated: from index 19 on, the upper and lower bands are the middle
\* band plus and minus 2 population standard deviations (divisor 20) of the
\* trailing 20 closes.
C21_PopulationDeviation ==
    HasIndicators => \A i \in 20..len(df) : BandsAround(i, 20)

\* C21 (amended): from index 19 on, the upper and lower bands are the middle
\* band plus and minus 2 sample standard deviations (divisor 19, the default
\* of pandas' rolling std) of the trailing 20 closes.
C21_SampleDeviation ==
    HasIndicators => \A i \in 20..len(df) : BandsAround(i, 19)

\* A bar where the two standard deviations differ.
C21_Witness ==
    /\ HasIndicators /\ CalledIndicators
    /\ \E i \in 20..len(df) :
          /\ DeviationOfLast20(i, 19) > DeviationOfLast20(i, 20)
          /\ BandsAround(i, 19)

\* v is the mean of the n closes that end at row i, rounded down to 1/Scale.
IsMeanOfLast(v, n, i) ==
    LET total == SumRange(close(df), i - n + 1, i) * Scale
    IN notna(v) /\ v * n <= total /\ total < (v + 1) * n

MAColumn(n) == IF n = 5 THEN "MA5" ELSE IF n = 10 THEN "MA10" ELSE "MA20"

\* C22: for n in {5, 10, 20}, MAn is undefined at indices 0..n-2 and is the
\* mean of the trailing n closes from index n-1 on; MA60 is undefined at
\* every index of a table of fewer than 60 bars.  (Index k is row k + 1.)
C22_MovingAverages ==
    HasIndicators =>
        /\ \A n \in {5, 10, 20} : \A i \in 1..len(df) :
              IF i < n THEN ~notna(get(df, i, MAColumn(n)))
              ELSE IsMeanOfLast(get(df, i, MAColumn(n)), n, i)
        /\ len(df) < 60 => \A i \in 1..len(df) : ~notna(get(df, i, "MA60"))

\* A frame whose closes move: MA20 is undefined at index 18, defined at
\* index 19 and differs from MA5 there.
C22_Witness ==
    /\ HasIndicators /\ CalledIndicators
    /\ ~notna(get(df, 19, "MA20"))
    /\ IsMeanOfLast(get(df, 20, "MA20"), 20, 20)
    /\ get(df, 20, "MA20") # get(df, 20, "MA5")

\* The number of leading bars on which two tables agree.
RECURSIVE CommonRows(_, _, _)
CommonRows(a, b, n) ==
    IF n < Len(a) /\ n < Len(b) /\ a[n + 1] = b[n + 1]
    THEN CommonRows(a, b, n + 1)
    ELSE n

\* The output of the Indicator Calculator for every table.
IndicatorFrames == [t \in Tables |-> calculate_technical_indicators(t)]

LongTables == {t \in Tables : len(t) >= 20}

\* The indicator values of the rows 1..CommonRows agree between the frame in
\* df and the output for table t.
SameUpToCommonRows(t) ==
    LET other == IndicatorFrames[t]
    IN \A i \in 1..CommonRows(t.bars, df.bars, 0) :
           \A f \in IndicatorFields : get(other, i, f) = get(df, i, f)

\* C23 as stated: for any two tables, of any lengths, that agree on bars
\* 0..i, every indicator value at index i is the same in both outputs.
C23_CausalAnyLengths ==
    CalledIndicators => \A t \in Tables : SameUpToCommonRows(t)

\* C23 (amended): for any two tables of at least 20 bars each that agree
\* on bars 0..i, every indicator value at index i, including whether it is
\* defined, is the same in both outputs.  (A table of fewer than 20 bars is
\* returned without indicators, so against a longer table that starts with
\* the same bars its values differ.)
C23_CausalFrom20Bars ==
    (CalledIndicators /\ HasIndicators) =>
        \A t \in LongTables : SameUpToCommonRows(t)

\* Another table agrees with this one on 19 bars and then goes its own way,
\* and the RSI and MA10 of bar 19 are defined.
C23_Witness ==
    /\ CalledIndicators /\ HasIndicators
    /\ \E t \in LongTables : CommonRows(t.bars, df.bars, 0) = 19
    /\ notna(get(df, 19, "RSI")) /\ notna(get(df, 19, "MA10"))

StrictlyIncreasing(xs) == \A j \in 1..(Len(xs) - 1) : xs[j] < xs[j + 1]

\* upper_bound - lower_bound of a Prediction entry
Width(p) == p.upper_bound - p.lower_bound

\* C25: for a table of at least 20 bars with strictly increasing closes and
\* days in 1..10, predict_future_trend returns exactly that many predictions,
\* their day fields are 1, 2, ..., days in order, and the interval width
\* upper_bound - lower_bound never shrinks from one day to the next.
\* The tables of this module have whole-number closes of 60 and more, so one
\* day widens the interval by more than the 0.02 that rounding the two bounds
\* can take away; closes that rise by a few hundredths are out of its reach.
C25_UptrendPredictions ==
    (CalledPredictor /\ HasForecast /\ ret.days \in 1..10
        /\ StrictlyIncreasing(close(df))) =>
        LET ps == ret.forecast.predictions
        IN /\ Len(ps) = ret.days
           /\ \A i \in 1..Len(ps) : ps[i].day = i
           /\ \A i \in 1..(Len(ps) - 1) : Width(ps[i]) <= Width(ps[i + 1])

\* Ten predictions for an uptrend, with an interval that is wider on the
\* tenth day than on the first.
C25_Witness ==
    /\ CalledPredictor /\ HasForecast /\ ret.days = 10
    /\ StrictlyIncreasing(close(df))
    /\ Width(ret.forecast.predictions[1]) < Width(ret.forecast.predictions[10])

\* The closes rise by the same step from every bar to the next.
ConstantStep(xs, step) ==
    \A j \in 1..(Len(xs) - 1) : xs[j + 1] - xs[j] = step

\* The step of a table of two bars or more: its first change.
FirstStep(xs) == xs[2] - xs[1]

\* A table of 20 bars or more whose closes rise by a constant positive step.
SteadyRise ==
    /\ len(df) >= 20
    /\ FirstStep(close(df)) > 0
    /\ ConstantStep(close(df), FirstStep(close(df)))

\* C26: on a table of 20 bars or more whose closes rise by a constant
\* positive step, at the last bar MA5 is the last close minus twice the step,
\* MA5 > MA20 and MACD > Signal, and the Signal Generator emits no SELL signal
\* from the MA-crossover rule or from the MACD-crossover rule.
C26_SteadyRise ==
    (HasIndicators /\ SteadyRise) =>
        LET last == len(df)
        IN /\ get(df, last, "MA5")
                  = (close(df)[last] - 2 * FirstStep(close(df))) * Scale
           /\ get(df, last, "MA5") > get(df, last, "MA20")
           /\ get(df, last, "MACD") > get(df, last, "MACD_Signal")
           /\ HasReport =>
                  \A k \in 1..Len(ret.report.signals) :
                      LET sig == ret.report.signals[k]
                      IN sig.indicator \in {"MA", "MACD"} => sig.type # "SELL"

\* The Signal Generator has reported on an augmented table that climbs two a
\* day.
C26_Witness ==
    /\ HasIndicators /\ SteadyRise /\ HasReport
    /\ FirstStep(close(df)) = 2

\* The rows 3..L-2 (indexes 2..L-3) whose value in xs is strictly above
\* (sign = 1) or strictly below (sign = -1) the values of the two rows on
\* each side.
CandidateRows(xs, sign) ==
    { i \in 1..Len(xs) :
        /\ 3 <= i /\ i <= Len(xs) - 2
        /\ sign * xs[i] > sign * xs[i - 2] /\ sign * xs[i] > sign * xs[i - 1]
        /\ sign * xs[i] > sign * xs[i + 1] /\ sign * xs[i] > sign * xs[i + 2] }

\* The values of xs at the rows of a set, in row order.
RECURSIVE ValuesAt(_, _, _)
ValuesAt(xs, rows, i) ==
    IF i > Len(xs) THEN << >>
    ELSE (IF i \in rows THEN <<xs[i]>> ELSE << >>) \o ValuesAt(xs, rows, i + 1)

\* C27: index i is a resistance candidate iff 2 <= i <= L-3 and high[i] is
\* strictly greater than high[i-2], high[i-1], high[i+1] and high[i+2], and a
\* support candidate iff 2 <= i <= L-3 and low[i] is strictly less than its
\* four neighbours; the first two and the last two bars are never candidates
\* and a bar that ties a neighbour is none.
C27_Candidates ==
    CalledLevels =>
        /\ ret.candidates.resistance_levels
               = ValuesAt(high(df), CandidateRows(high(df), 1), 1)
        /\ ret.candidates.support_levels
               = ValuesAt(low(df), CandidateRows(low(df), -1), 1)
        /\ Len(ret.candidates.resistance_levels) <= Max(len(df) - 4, 0)
        /\ Len(ret.candidates.support_levels) <= Max(len(df) - 4, 0)

\* A table with a candidate of each kind and with a high that only ties a
\* neighbour two rows away, so that it is no candidate.
C27_Witness ==
    /\ CalledLevels
    /\ ret.candidates.resistance_levels # << >>
    /\ ret.candidates.support_levels # << >>
    /\ \E i \in 3..(len(df) - 2) :
           /\ high(df)[i] > high(df)[i - 1] /\ high(df)[i] > high(df)[i + 1]
           /\ high(df)[i] > high(df)[i + 2] /\ high(df)[i] = high(df)[i - 2]

\* The sum of strength over the signals of one type among the first n.
RECURSIVE StrengthOf(_, _, _)
StrengthOf(signals, type, n) ==
    IF n = 0 THEN 0
    ELSE StrengthOf(signals, type, n - 1)
            + (IF signals[n].type = type THEN signals[n].strength ELSE 0)

\* C28: in every SignalReport for a table of at least 20 bars buy_score is
\* the sum of strength over the listed BUY signals and sell_score the sum over
\* the listed SELL signals; each of MA, RSI, KD, MACD and BB contributes at
\* most one signal, so 0 <= buy_score <= 9, 0 <= sell_score <= 9 and
\* -9 <= total_score <= 9.
C28_ScoresAreStrengthSums ==
    HasReport =>
        LET r == ret.report
        IN /\ r.buy_score = StrengthOf(r.signals, "BUY", Len(r.signals))
           /\ r.sell_score = StrengthOf(r.signals, "SELL", Len(r.signals))
           /\ \A n \in 1..5 : Len(SignalsOf(r, RuleNames[n])) <= 1
           /\ \A k \in 1..Len(r.signals) :
                  r.signals[k].indicator \in {RuleNames[n] : n \in 1..5}
           /\ r.buy_score \in 0..9 /\ r.sell_score \in 0..9
           /\ r.total_score \in -9..9

\* A report that lists a BUY and a SELL signal of different strengths.
C28_Witness ==
    /\ HasReport
    /\ \E j, k \in 1..Len(ret.report.signals) :
           /\ ret.report.signals[j].type = "BUY"
           /\ ret.report.signals[k].type = "SELL"
           /\ ret.report.signals[j].strength # ret.report.signals[k].strength

\* C29: for every table of at least 20 bars with a positive latest close the
\* forecast has stop_loss <= current_price <= target_price when the trend is
\* UP or STRONG_UP, target_price <= current_price <= stop_loss when it is
\* DOWN or STRONG_DOWN, and target_price = current_price with
\* stop_loss <= current_price when it is NEUTRAL, whether the levels come
\* from support and resistance or from the percentage fallbacks.
C29_LevelsAroundPrice ==
    (HasForecast /\ close(df)[len(df)] > 0) =>
        LET f == ret.forecast
        IN /\ f.trend \in {"STRONG_UP", "UP"} =>
                  f.stop_loss <= f.current_price /\ f.current_price <= f.target_price
           /\ f.trend \in {"STRONG_DOWN", "DOWN"} =>
                  f.target_price <= f.current_price /\ f.current_price <= f.stop_loss
           /\ f.trend = "NEUTRAL" =>
                  f.target_price = round2(f.current_price)
                      /\ f.stop_loss <= f.current_price

\* An up-trend whose stop is a support level while other local lows lie
\* above the latest close.
C29_Witness ==
    /\ HasForecast /\ ret.forecast.trend \in {"STRONG_UP", "UP"}
    /\ ret.forecast.support_levels # << >>
    /\ \E i \in CandidateRows(low(df), -1) : low(df)[i] >= close(df)[len(df)]

\* The latest value of an indicator as the Trend Predictor reads it: the
\* default when the column is missing or the value undefined.
Latest(col, default) ==
    IF HasIndicators /\ notna(get(df, len(df), col))
    THEN get(df, len(df), col) ELSE default

\* The four comparisons of the latest bar: left side, right side, the factor
\* appended when the left side is greater and the one appended otherwise.
Comparisons ==
    LET current_price == close(df)[len(df)] * Scale
    IN << <<Latest("K", 50 * Scale), Latest("D", 50 * Scale), "K > D", "K < D">>,
          <<Latest("MACD", 0), Latest("MACD_Signal", 0),
            "MACD bullish", "MACD bearish">>,
          <<Latest("MA5", current_price), Latest("MA20", current_price),
            "MA5 above MA20", "MA5 below MA20">>,
          <<current_price, Latest("MA5", current_price),
            "price above MA5", "price below MA5">> >>

AllTies == \A n \in 1..4 : Comparisons[n][1] = Comparisons[n][2]

\* What an entry of trend_factors adds to trend_score.
PointsOfFactor(text) ==
    CASE text = "RSI oversold" -> 2
      [] text = "RSI low" -> 1
      [] text = "RSI overbought" -> -2
      [] text = "RSI high" -> -1
      [] text = "KD low" -> 2
      [] text = "KD high" -> -2
      [] text \in {Comparisons[n][3] : n \in 1..4} -> 1
      [] text \in {Comparisons[n][4] : n \in 1..4} -> -1

RECURSIVE FactorPoints(_, _)
FactorPoints(factors, n) ==
    IF n = 0 THEN 0
    ELSE FactorPoints(factors, n - 1) + PointsOfFactor(factors[n])

\* C30: each of the comparisons K-vs-D, MACD-vs-Signal, MA5-vs-MA20 and
\* close-vs-MA5 contributes exactly +1 or -1, never 0: +1 when the left side
\* is strictly greater and -1 otherwise, equality included, also when both
\* sides are defaults.  A table whose four comparisons all tie gets
\* trend_score -4 and trend STRONG_DOWN, and trend_factors has between 4 and
\* 6 entries.
C30_TiesCountAgainst ==
    HasForecast =>
        LET f == ret.forecast
            said == {f.trend_factors[n] : n \in 1..Len(f.trend_factors)}
        IN /\ \A n \in 1..4 :
                  LET c == Comparisons[n]
                  IN IF c[1] > c[2] THEN c[3] \in said /\ c[4] \notin said
                     ELSE c[4] \in said /\ c[3] \notin said
           /\ Cardinality(said) = Len(f.trend_factors)
           /\ f.trend_score = FactorPoints(f.trend_factors, Len(f.trend_factors))
           /\ Len(f.trend_factors) \in 4..6
           /\ AllTies => f.trend_score = -4 /\ f.trend = "STRONG_DOWN"

\* A forecast from an augmented table whose four comparisons all tie, with
\* MACD and Signal defined.
C30_Witness ==
    /\ HasForecast /\ HasIndicators /\ AllTies
    /\ notna(get(df, len(df), "MACD")) /\ notna(get(df, len(df), "MA20"))

=============================================================================
